---------------------------- MODULE Spec2Model ----------------------------
(***************************************************************************)
(* A model of the CHIP-8 interpreter of src/src/main.rs: the Emulator      *)
(* struct (i, pc, mem, v, stack, vmem, keypad, dt), its constructor,       *)
(* load_rom, set_key_state, process / run_instr / read_word, and the       *)
(* timer decrement of the host loop.  A Rust panic ends the program: the   *)
(* variable `panic` records which one was raised, and no operation runs    *)
(* once it is set.  Spec drives the operations in any order; SpecHost      *)
(* drives them as the event loop of main does, with its clock.             *)
(***************************************************************************)
EXTENDS Integers, Sequences, FiniteSets, TLC

VARIABLES i, pc, mem, v, stack, vmem, keypad, dt, loaded, unchecked, panic,
          clock, host_t, host_dt

\* The host loop's own state, in whole milliseconds: the system clock, and
\* main's `t` and `dt`
host == <<clock, host_t, host_dt>>

vars == <<i, pc, mem, v, stack, vmem, keypad, dt, loaded, unchecked, panic,
          host>>

---------------------------------------------------------------------------
(* Program constants *)

WIDTH == 64

HEIGHT == 32

MemSize == 4096

VmemSize == HEIGHT * WIDTH

ProgStart == 512

FontStart == 80

MaxRomLen == MemSize - 512

FONT ==
  << 240, 144, 144, 144, 240,
     32,  96,  32,  32,  112,
     240, 16,  240, 128, 240,
     240, 16,  240, 16,  240,
     144, 144, 240, 16,  16,
     240, 128, 240, 16,  240,
     240, 128, 240, 144, 240,
     240, 16,  32,  64,  64,
     240, 144, 240, 144, 240,
     240, 144, 240, 16,  240,
     240, 144, 240, 144, 144,
     224, 144, 224, 144, 224,
     240, 128, 128, 128, 240,
     224, 144, 144, 144, 224,
     240, 128, 240, 128, 240,
     240, 128, 240, 128, 128 >>

---------------------------------------------------------------------------
(* Bounds of the model *)

\* The call stack is a Vec that grows without limit; calls deeper than this
\* are not explored.
MaxStack == 3

\* set_key_state is driven for the keys 0..MaxKey only.
MaxKey == 1

\* The event loop is followed until the clock shows this many milliseconds.
MaxClock == 20

---------------------------------------------------------------------------
(* Fixed-width arithmetic *)

Bit(b, k) == (b \div (2 ^ k)) % 2

And8(a, b) ==
  LET B(k) == Bit(a, k) * Bit(b, k)
  IN  B(0) + 2*B(1) + 4*B(2) + 8*B(3) + 16*B(4) + 32*B(5) + 64*B(6) + 128*B(7)

Or8(a, b) ==
  LET B(k) == IF Bit(a, k) + Bit(b, k) > 0 THEN 1 ELSE 0
  IN  B(0) + 2*B(1) + 4*B(2) + 8*B(3) + 16*B(4) + 32*B(5) + 64*B(6) + 128*B(7)

Xor8(a, b) ==
  LET B(k) == (Bit(a, k) + Bit(b, k)) % 2
  IN  B(0) + 2*B(1) + 4*B(2) + 8*B(3) + 16*B(4) + 32*B(5) + 64*B(6) + 128*B(7)

---------------------------------------------------------------------------
(* The machine as one record, so that run_instr is a function of it *)

Machine ==
  [i |-> i, pc |-> pc, mem |-> mem, v |-> v, stack |-> stack, vmem |-> vmem,
   keypad |-> keypad, dt |-> dt, unchecked |-> unchecked, panic |-> panic]

\* Emulator::new
New ==
  [i      |-> 0,
   pc     |-> ProgStart,
   mem    |-> [a \in 0..(MemSize - 1) |->
                 IF a >= FontStart /\ a < FontStart + Len(FONT)
                 THEN FONT[a - FontStart + 1] ELSE 0],
   v      |-> [r \in 0..15 |-> 0],
   stack  |-> << >>,
   vmem   |-> [c \in 0..(VmemSize - 1) |-> 0],
   keypad |-> [k \in 0..15 |-> FALSE],
   dt     |-> 0,
   unchecked |-> FALSE,
   panic  |-> "none"]

\* load_rom copying to the start of memory: self.mem[i] = *v
LoadRomAtZero(m, rom) ==
  IF Len(rom) > MaxRomLen
  THEN [m EXCEPT !.panic = "size too large to load into memory"]
  ELSE [m EXCEPT !.mem = [a \in 0..(MemSize - 1) |->
                            IF a < Len(rom) THEN rom[a + 1] ELSE m.mem[a]]]

\* load_rom checking the size after the copy, the copy stopping at the end
\* of mem
LoadRomCopiesFirst(m, rom) ==
  LET m1 == [m EXCEPT !.mem = [a \in 0..(MemSize - 1) |->
                                 IF a >= ProgStart /\ a - ProgStart < Len(rom)
                                 THEN rom[a - ProgStart + 1] ELSE m.mem[a]]]
  IN  IF Len(rom) > MaxRomLen
      THEN [m1 EXCEPT !.panic = "size too large to load into memory"]
      ELSE m1

\* Emulator::load_rom
LoadRom(m, rom) ==
  IF Len(rom) > MaxRomLen
  THEN [m EXCEPT !.panic = "size too large to load into memory"]
  ELSE [m EXCEPT !.mem = [a \in 0..(MemSize - 1) |->
                            IF a >= ProgStart /\ a - ProgStart < Len(rom)
                            THEN rom[a - ProgStart + 1] ELSE m.mem[a]]]

\* Emulator::draw(&self, frame): the frame it leaves, one RGBA pixel per
\* framebuffer cell.  The frame belongs to the window and self is borrowed
\* immutably: the emulator is as before.
DrawFrame(m) ==
  [c \in 0..(VmemSize - 1) |->
     IF m.vmem[c] = 1 THEN << 255, 255, 255, 255 >> ELSE << 0, 0, 0, 255 >>]

\* Emulator::set_key_state
SetKeyState(m, key, state) ==
  IF key > 15
  THEN [m EXCEPT !.panic = "index out of bounds"]
  ELSE [m EXCEPT !.keypad[key] = state]

\* Emulator::read_word; the caller has checked addr + 1 < MemSize
ReadWord(memory, addr) == memory[addr] * 256 + memory[addr + 1]

---------------------------------------------------------------------------
(* run_instr: the fields of an instruction word *)

OpT(instr) == instr \div 4096

OpX(instr) == (instr \div 256) % 16

OpY(instr) == (instr \div 16) % 16

OpN(instr) == instr % 16

OpNN(instr) == instr % 256

OpNNN(instr) == instr % 4096

\* A Rust panic: the program ends with the state as it is at that point.
Panic(m, what) == [m EXCEPT !.panic = what]

\* u16 addition a + b.  A build with overflow checks (checks = TRUE, the
\* debug profile) panics when the sum does not fit; a build without them
\* wraps.  Returns the sum, or -1 for the panic.
AddU16(a, b, checks) ==
  IF a + b < 65536 THEN a + b
  ELSE IF checks THEN -1 ELSE (a + b) % 65536

---------------------------------------------------------------------------
(* run_instr: one operator per match arm *)

\* the clear reaching the first row of cells only
ClearScreenFirstRow(m) ==
  [m EXCEPT !.vmem = [c \in 0..(VmemSize - 1) |->
                        IF c < WIDTH THEN 0 ELSE m.vmem[c]]]

\* (0x0, 0x0, 0xe, 0x0): clear screen
ClearScreen(m) == [m EXCEPT !.vmem = [c \in 0..(VmemSize - 1) |-> 0]]

\* A return that ignores an empty stack: if let Some(a) = self.stack.pop()
ReturnAbsorbed(m) ==
  IF Len(m.stack) = 0
  THEN m
  ELSE [m EXCEPT !.pc = m.stack[Len(m.stack)],
                 !.stack = SubSeq(m.stack, 1, Len(m.stack) - 1)]

\* (0x0, 0x0, 0xe, 0xe): self.pc = self.stack.pop().unwrap()
Return(m) ==
  IF Len(m.stack) = 0
  THEN Panic(m, "called Option::unwrap() on a None value")
  ELSE [m EXCEPT !.pc = m.stack[Len(m.stack)],
                 !.stack = SubSeq(m.stack, 1, Len(m.stack) - 1)]

\* (0x1, _, _, _): jump
Jump(m, nnn) == [m EXCEPT !.pc = nnn]

\* A call that pushes the address of the call instruction itself
CallPushesCallSite(m, nnn) ==
  [m EXCEPT !.stack = Append(m.stack, m.pc - 2), !.pc = nnn]

\* (0x2, _, _, _): call subroutine
Call(m, nnn) == [m EXCEPT !.stack = Append(m.stack, m.pc), !.pc = nnn]

\* the skips taken when the condition fails
SkipUnless(m, cond) == IF cond THEN m ELSE [m EXCEPT !.pc = m.pc + 2]

\* the skips: self.pc += 2 when the condition holds
Skip(m, cond) == IF cond THEN [m EXCEPT !.pc = m.pc + 2] ELSE m

\* the arms that only assign self.v[x]
SetVx(m, x, val) == [m EXCEPT !.v[x] = val]

\* (0x8, _, _, 4): (v[x], wrapped) = vx.overflowing_add(vy); v[0xf] = flag
AddCarry(m, x, vx, vy) ==
  [m EXCEPT !.v = [[m.v EXCEPT ![x] = (vx + vy) % 256]
                     EXCEPT ![15] = IF vx + vy > 255 THEN 1 ELSE 0]]

\* the subtractions raising the flag only for a > b
SubBorrowOnEqual(m, x, a, b) ==
  [m EXCEPT !.v = [[m.v EXCEPT ![x] = (a - b + 256) % 256]
                     EXCEPT ![15] = IF a <= b THEN 0 ELSE 1]]

\* (0x8, _, _, 5) and (0x8, _, _, 7): a.overflowing_sub(b); v[0xf] = flag
SubBorrow(m, x, a, b) ==
  [m EXCEPT !.v = [[m.v EXCEPT ![x] = (a - b + 256) % 256]
                     EXCEPT ![15] = IF a < b THEN 0 ELSE 1]]

\* the right shift of Vx in place: v[0xf] = vx & 1; v[x] = vx >> 1
ShiftRightInPlace(m, x, vx, vy) ==
  [m EXCEPT !.v = [[m.v EXCEPT ![15] = And8(vx, 1)]
                     EXCEPT ![x] = vx \div 2]]

\* (0x8, _, _, 6): v[0xf] = vx & 1; v[x] = vy >> 1
ShiftRight(m, x, vx, vy) ==
  [m EXCEPT !.v = [[m.v EXCEPT ![15] = And8(vx, 1)]
                     EXCEPT ![x] = vy \div 2]]

\* (0x8, _, _, 0xe): v[0xf] = (vx & 0x80) >> 7; v[x] = vy << 1
ShiftLeft(m, x, vx, vy) ==
  [m EXCEPT !.v = [[m.v EXCEPT ![15] = And8(vx, 128) \div 128]
                     EXCEPT ![x] = (vy * 2) % 256]]

\* (0xa, _, _, _): set index register
SetI(m, nnn) == [m EXCEPT !.i = nnn]

\* (0xb, _, _, _): self.pc = self.v[0] as u16 + nnn
JumpOffset(m, nnn) == [m EXCEPT !.pc = m.v[0] + nnn]

\* A draw that takes the sprite's bits least significant first
DrawPixelLsbFirst(d, dx, dy, j, b) ==
  LET idx == ((dx + (7 - b)) % WIDTH) + ((dy + j) % HEIGHT) * 64
      ov  == d.vmem[idx]
  IN  [vmem |-> [d.vmem EXCEPT ![idx] = Xor8(1, ov)], vf |-> ov]

\* A draw that sets the pixel instead of flipping it
DrawPixelOr(d, dx, dy, j, b) ==
  LET idx == ((dx + b) % WIDTH) + ((dy + j) % HEIGHT) * 64
      ov  == d.vmem[idx]
  IN  [vmem |-> [d.vmem EXCEPT ![idx] = Or8(1, ov)], vf |-> ov]

\* (0xd, _, _, _), the body of `if v == 1`: one set sprite bit, row j, bit b
DrawPixel(d, dx, dy, j, b) ==
  LET idx == ((dx + b) % WIDTH) + ((dy + j) % HEIGHT) * 64
      ov  == d.vmem[idx]
  IN  [vmem |-> [d.vmem EXCEPT ![idx] = Xor8(1, ov)], vf |-> ov]

\* (0xd, _, _, _), the two nested loops, k = 8 * j + b counting the bits of
\* the sprite in scan order; d holds vmem and v[0xf]
RECURSIVE DrawLoop(_, _, _, _, _, _)
DrawLoop(d, sprite, dx, dy, n, k) ==
  IF k >= 8 * n THEN d
  ELSE LET j  == k \div 8
           b  == k % 8
           px == Bit(sprite[j], 7 - b)
       IN  DrawLoop(IF px = 1 THEN DrawPixel(d, dx, dy, j, b) ELSE d,
                    sprite, dx, dy, n, k + 1)

\* (0xd, _, _, _): draw
Draw(m, vx, vy, n, checks) ==
  LET dx   == And8(vx, 63)
      dy   == And8(vy, 31)
      m1   == [m EXCEPT !.v[15] = 0]
      end  == AddU16(m.i, n, checks)
  IN  IF end = -1 THEN Panic(m1, "attempt to add with overflow")
      ELSE IF m.i > end \/ end > MemSize
      THEN [Panic(m1, "index out of bounds")
              EXCEPT !.unchecked = m.unchecked \/ (m.i + n > 65535)]
      ELSE LET sprite == [j \in 0..(n - 1) |-> m.mem[m.i + j]]
               d == DrawLoop([vmem |-> m.vmem, vf |-> 0], sprite, dx, dy, n, 0)
           IN  [m1 EXCEPT !.vmem = d.vmem, !.v[15] = d.vf]

\* (0xe, _, 0x9, 0xe) and (0xe, _, 0xa, 0x1): skip if key vx is down (up)
SkipKey(m, vx, down) ==
  IF vx > 15 THEN Panic(m, "index out of bounds")
  ELSE Skip(m, m.keypad[vx] = down)

\* (0xf, _, 0x1, 0x5): set dt val
SetDt(m, vx) == [m EXCEPT !.dt = vx]

\* The last pressed key instead of the first: rposition
PositionLast(kp) ==
  IF \E k \in 0..15 : kp[k]
  THEN CHOOSE k \in 0..15 : kp[k] /\ \A l \in (k + 1)..15 : ~kp[l]
  ELSE -1

\* self.keypad.iter().position(|e| *e): the first pressed key, -1 for None
Position(kp) ==
  IF \E k \in 0..15 : kp[k]
  THEN CHOOSE k \in 0..15 : kp[k] /\ \A l \in 0..(k - 1) : ~kp[l]
  ELSE -1

\* (0xf, _, 0x0, 0xa): get key
GetKey(m, x) ==
  IF Position(m.keypad) # -1
  THEN [m EXCEPT !.v[x] = Position(m.keypad)]
  ELSE [m EXCEPT !.pc = m.pc - 2]

\* self.mem[addr] = val, which panics past the end of mem
Store(m, addr, val) ==
  IF m.panic # "none" THEN m
  ELSE IF addr >= MemSize THEN Panic(m, "index out of bounds")
  ELSE [m EXCEPT !.mem[addr] = val]

\* the conversion with the tens not reduced: vx / 10
BcdTensUnreduced(m, vx) ==
  Store(Store(Store(m, m.i, vx \div 100),
              m.i + 1, vx \div 10),
        m.i + 2, (vx % 100) % 10)

\* (0xf, _, 0x3, 0x3): binary-coded decimal conversion
Bcd(m, vx) ==
  Store(Store(Store(m, m.i, vx \div 100),
              m.i + 1, (vx \div 10) % 10),
        m.i + 2, (vx % 100) % 10)

\* (0xf, _, 0x2, 0x9): font character
FontChar(m, vx) == [m EXCEPT !.i = And8(vx, 15) + 80]

\* store mem over the exclusive range 0..x
StoreRegsExclusive(m, x) ==
  LET m1 == [m EXCEPT !.mem = [a \in 0..(MemSize - 1) |->
                                 IF a >= m.i /\ a < m.i + x
                                 THEN m.v[a - m.i] ELSE m.mem[a]]]
  IN  IF m.i + x > MemSize THEN Panic(m1, "index out of bounds") ELSE m1

\* (0xf, _, 0x5, 0x5): store mem; the loop stops at the first address past
\* the end of mem, with the earlier registers stored
StoreRegs(m, x) ==
  LET m1 == [m EXCEPT !.mem = [a \in 0..(MemSize - 1) |->
                                 IF a >= m.i /\ a <= m.i + x
                                 THEN m.v[a - m.i] ELSE m.mem[a]]]
  IN  IF m.i + x >= MemSize THEN Panic(m1, "index out of bounds") ELSE m1

\* (0xf, _, 0x6, 0x5): load mem; the loop stops at the first address past
\* the end of mem, with the earlier registers loaded
LoadRegs(m, x) ==
  LET m1 == [m EXCEPT !.v = [r \in 0..15 |->
                               IF r <= x /\ m.i + r < MemSize
                               THEN m.mem[m.i + r] ELSE m.v[r]]]
  IN  IF m.i + x >= MemSize THEN Panic(m1, "index out of bounds") ELSE m1

\* (0xf, _, 0x1, 0xe): add to i
AddToI(m, x, checks) ==
  LET sum == AddU16(m.i, m.v[x], checks)
  IN  IF sum = -1 THEN Panic(m, "attempt to add with overflow")
      ELSE [m EXCEPT !.i = sum,
                     !.v[15] = IF sum > 4095 THEN 1 ELSE m.v[15],
                     !.unchecked = m.unchecked \/ (m.i + m.v[x] > 65535)]

\* (t, x, y, n) => println!("missing instr ...")
Missing(m) == m

---------------------------------------------------------------------------
(* run_instr and process *)

\* Emulator::run_instr: the match on (t, x, y, n), arm by arm in its order.
\* rnd is the byte rand::random::<u8>() returns, checks whether the build
\* panics on integer overflow.
RunInstr(m, instr, rnd, checks) ==
  LET t   == OpT(instr)
      x   == OpX(instr)
      y   == OpY(instr)
      n   == OpN(instr)
      nn  == OpNN(instr)
      nnn == OpNNN(instr)
      vx  == m.v[x]
      vy  == m.v[y]
  IN  CASE t = 0 /\ x = 0 /\ y = 14 /\ n = 0  -> ClearScreen(m)
        [] t = 0 /\ x = 0 /\ y = 14 /\ n = 14 -> Return(m)
        [] t = 1  -> Jump(m, nnn)
        [] t = 2  -> Call(m, nnn)
        [] t = 3  -> Skip(m, vx = nn)
        [] t = 4  -> Skip(m, vx # nn)
        [] t = 5  -> Skip(m, vx = vy)
        [] t = 6  -> SetVx(m, x, nn)
        [] t = 7  -> SetVx(m, x, (vx + nn) % 256)
        [] t = 8 /\ n = 0  -> SetVx(m, x, vy)
        [] t = 8 /\ n = 1  -> SetVx(m, x, Or8(vx, vy))
        [] t = 8 /\ n = 2  -> SetVx(m, x, And8(vx, vy))
        [] t = 8 /\ n = 3  -> SetVx(m, x, Xor8(vx, vy))
        [] t = 8 /\ n = 4  -> AddCarry(m, x, vx, vy)
        [] t = 8 /\ n = 5  -> SubBorrow(m, x, vx, vy)
        [] t = 8 /\ n = 7  -> SubBorrow(m, x, vy, vx)
        [] t = 8 /\ n = 6  -> ShiftRight(m, x, vx, vy)
        [] t = 8 /\ n = 14 -> ShiftLeft(m, x, vx, vy)
        [] t = 9  -> Skip(m, vx # vy)
        [] t = 10 -> SetI(m, nnn)
        [] t = 11 -> JumpOffset(m, nnn)
        [] t = 12 -> SetVx(m, x, And8(rnd, nn))
        [] t = 13 -> Draw(m, vx, vy, n, checks)
        [] t = 14 /\ y = 9 /\ n = 14 -> SkipKey(m, vx, TRUE)
        [] t = 14 /\ y = 10 /\ n = 1 -> SkipKey(m, vx, FALSE)
        [] t = 15 /\ y = 0 /\ n = 7  -> SetVx(m, x, m.dt)
        [] t = 15 /\ y = 1 /\ n = 5  -> SetDt(m, vx)
        [] t = 15 /\ y = 0 /\ n = 10 -> GetKey(m, x)
        [] t = 15 /\ y = 3 /\ n = 3  -> Bcd(m, vx)
        [] t = 15 /\ y = 2 /\ n = 9  -> FontChar(m, vx)
        [] t = 15 /\ y = 5 /\ n = 5  -> StoreRegs(m, x)
        [] t = 15 /\ y = 6 /\ n = 5  -> LoadRegs(m, x)
        [] t = 15 /\ y = 1 /\ n = 14 -> AddToI(m, x, checks)
        [] OTHER -> Missing(m)

\* Whether read_word(mem, addr) indexes mem within its 4096 bytes
CanFetch(addr) == addr + 1 < MemSize

\* Emulator::process: fetch, move PC forward, run
Process(m, rnd, checks) ==
  IF ~CanFetch(m.pc) THEN Panic(m, "index out of bounds")
  ELSE RunInstr([m EXCEPT !.pc = m.pc + 2], ReadWord(m.mem, m.pc), rnd, checks)

\* main, the event loop's timer: if emulator.dt > 0 { emulator.dt -= 1 }
TickTimer(m) == IF m.dt > 0 THEN [m EXCEPT !.dt = m.dt - 1] ELSE m

---------------------------------------------------------------------------
(* The inputs of the model *)

\* The bytes rand::random::<u8>() is taken to return
RandVals == {0, 62, 129, 255}

\* A program image from its instruction words, big-endian
Image(words) ==
  [k \in 1..(2 * Len(words)) |->
     IF k % 2 = 1 THEN words[(k + 1) \div 2] \div 256 ELSE words[k \div 2] % 256]

\* BCD of a random byte over the first font glyph, then a loop
RomFont == Image(<< \hC0FF, \hA050, \hF033, \h1206 >>)

\* V0 and V1 stored over the last font byte and the byte after it
RomFontRegs == Image(<< \h6011, \h6122, \hA09F, \hF155, \h1208 >>)

\* Jump to the last words of memory and run off its end
RomEdge == Image(<< \h1FFC >>)

\* Jump with offset to V0 + 0xFFD
RomOffset == Image(<< \hC0FF, \hBFFD >>)

\* Key skips on a random V0
RomKeySkip == Image(<< \hC0FF, \hE09E, \hE0A1, \h1206 >>)

\* Words that are not in the opcode table
RomMissing ==
  Image(<< \h5001, \h6A01, \h0ABC, \h800F, \hE0A5, \hF1FF, \h9121, \h120E >>)

\* Return with nothing on the stack
RomReturn == Image(<< \h00EE >>)

\* Nested calls: 0x200 calls 0x206, which calls 0x204
RomCall == Image(<< \h2206, \h1202, \h00EE, \h2204, \h00EE >>)

\* A subroutine that calls itself
RomRecurse == Image(<< \h2200 >>)

\* Wait for a key into V3, then loop
RomWait == Image(<< \hF30A, \h1202 >>)

\* Five font bytes from I = 0x50 + (V2 & 0xF) drawn twice at a random origin
\* and once more with VF for its column, five more drawn over them twice,
\* then the screen cleared
RomDraw ==
  Image(<< \hC0FF, \hC1FF, \hC20F, \hF229, \hD015, \hD015, \hDF15,
           \hC20F, \hF229, \hD015, \hD015, \h00E0, \h1218 >>)

\* Sprites and digits at the last bytes of memory
RomMemEnd == Image(<< \hC0FF, \hAFFE, \hD001, \hD002, \hF033 >>)

\* The delay timer set, then read in a loop
RomTimer == Image(<< \h6003, \hF015, \hF107, \h1204 >>)

\* The additions of 255 that take I from 0xF00 past 0xFFFF
AddsToOverflow == ((65535 - 3840) \div 255) + 1

\* I advanced by VF = 7 from 0, set to 0xF00 and advanced by V0 = 255 as
\* often as it takes for the u16 sum to overflow, then a loop
RomAddI ==
  Image(<< \h6F07, \hA000, \hFF1E, \h60FF, \hAF00 >>
        \o [k \in 1..AddsToOverflow |-> \hF01E]
        \o << \h1000 + ProgStart + 2 * (5 + AddsToOverflow) >>)

\* A loop followed by 50 words of data
RomData == Image(<< \h1200 >> \o [k \in 1..50 |-> \hA5C3])

\* Shifts of random V0 and V1 in both directions, with x = y and with the
\* flag register for destination
RomShift ==
  Image(<< \hC0FF, \hC1FF, \h8016, \h801E, \h8106, \h800E, \h8F16, \h8F1E,
           \h1210 >>)

\* Sums and differences of random V0 and V1, then of V0 and a random VF
RomAlu ==
  Image(<< \hC0FF, \hC1FF, \h8014, \h8015, \h8017, \hCFFF, \h80F4, \h80F5,
           \h80F7, \h1212 >>)

\* A loop followed by data up to the last byte of memory: the longest image
\* load_rom takes
RomFull ==
  [k \in 1..MaxRomLen |->
     IF k = 1 THEN 18 ELSE IF k = 2 THEN 0 ELSE ((k * 7) % 255) + 1]

\* The same with one more byte
RomTooLarge == RomFull \o << 1 >>

\* V0 and V1 stored at 0x300, V0..V2 overwritten, V0 and V1 loaded back
RomRegs ==
  Image(<< \h6233, \hC0FF, \hC1FF, \hA300, \hF155, \h60AA, \h61BB, \h6200,
           \hF165, \h1212 >>)

\* The four conditional skips on random V0 and V1, then on VF and VE
RomSkip ==
  Image(<< \hC0FF, \hC1FF, \h3081, \h4081, \h5010, \h9010, \h3F00, \h4F00,
           \h9FE0, \h5FE0, \h1214, \h1216 >>)

\* Sums, differences and shifts with the flag register for destination
RomFlagDest ==
  Image(<< \hC1FF, \h8F14, \h8F15, \h8F17, \h8F16, \h8F1E, \h8FF4, \h120E >>)

Roms ==
  { RomFont, RomFontRegs, RomEdge, RomOffset, RomKeySkip, RomMissing, RomReturn, RomCall,
    RomRecurse, RomWait, RomDraw, RomMemEnd, RomTimer, RomAddI, RomData,
    RomShift,
    RomAlu,
    RomFull,
    RomTooLarge,
    RomRegs,
    RomSkip,
    RomFlagDest }

---------------------------------------------------------------------------
(* The state machine *)

Install(m) ==
  /\ i' = m.i
  /\ pc' = m.pc
  /\ mem' = m.mem
  /\ v' = m.v
  /\ stack' = m.stack
  /\ vmem' = m.vmem
  /\ keypad' = m.keypad
  /\ dt' = m.dt
  /\ unchecked' = m.unchecked
  /\ panic' = m.panic

Running == loaded /\ panic = "none"

\* let mut emulator = Emulator::new()
Init ==
  /\ i = New.i
  /\ pc = New.pc
  /\ mem = New.mem
  /\ v = New.v
  /\ stack = New.stack
  /\ vmem = New.vmem
  /\ keypad = New.keypad
  /\ dt = New.dt
  /\ unchecked = New.unchecked
  /\ panic = New.panic
  /\ loaded = FALSE
  /\ clock = 0
  /\ host_t = 0
  /\ host_dt = 0

\* emulator.load_rom(&rom)
Load ==
  /\ ~loaded
  /\ panic = "none"
  /\ \E rom \in Roms : Install(LoadRom(Machine, rom))
  /\ loaded' = TRUE
  /\ UNCHANGED host

\* The random bytes that matter to the next instruction: only Cxnn draws one
RandChoices ==
  IF CanFetch(pc) /\ OpT(ReadWord(mem, pc)) = 12 THEN RandVals ELSE {0}

\* The builds the run so far can come from: with overflow checks (the first
\* overflow panics) or without (it wraps, after which the build is known).
\* The u16 sums of run_instr add a byte to i, so none overflows while
\* i <= 65535 - 255 and the choice is not made before.
CheckChoices ==
  IF unchecked \/ i <= 65535 - 255 THEN {FALSE} ELSE BOOLEAN

\* emulator.process()
Step ==
  /\ Running
  /\ \E rnd \in RandChoices, checks \in CheckChoices :
       LET m == Process(Machine, rnd, checks)
       IN  /\ Len(m.stack) <= MaxStack
           /\ Install(m)
  /\ UNCHANGED <<loaded, host>>

\* emulator.set_key_state(*v, state) for a key of the key map
SetKey ==
  /\ Running
  /\ \E key \in 0..MaxKey, state \in BOOLEAN :
       Install(SetKeyState(Machine, key, state))
  /\ UNCHANGED <<loaded, host>>

\* the event loop's timer decrement
Tick ==
  /\ Running
  /\ Install(TickTimer(Machine))
  /\ UNCHANGED <<loaded, host>>

\* emulator.draw(pixels.get_frame()): DrawFrame(Machine) goes to the window,
\* which is not part of the state
Render ==
  /\ Running
  /\ UNCHANGED vars

Next == Load \/ Step \/ SetKey \/ Tick \/ Render

Spec == Init /\ [][Next]_vars

---------------------------------------------------------------------------
(* The event loop of main, one callback per step, with its clock.  Time is
   in whole milliseconds and the clock does not go backwards.  A callback
   that asks the loop to exit (Escape, quit, a failed render) ends the run
   before its timer code: such runs are prefixes of the ones below. *)

\* The milliseconds that pass from one callback to the next
ElapsedVals == {0, 1, 17}

\* What the input helper reports for a key of the key map
KeyEvents == {"none", "released", "pressed"}

\* The images SpecHost runs
HostRoms == {RomTimer}

\* for (k, v) in key_map.iter(): released keys, then pressed keys
RECURSIVE HandleInput(_, _, _)
HandleInput(m, evs, key) ==
  IF key > MaxKey THEN m
  ELSE LET m1 == IF evs[key] = "released" THEN SetKeyState(m, key, FALSE) ELSE m
           m2 == IF evs[key] = "pressed" THEN SetKeyState(m1, key, TRUE) ELSE m1
       IN  HandleInput(m2, evs, key + 1)

\* The timer code of the callback at time now, from main's t and dt: dt
\* accumulates now - t and is never reset; t moves only in the branch.
HostTimer(m, t0, d0, now) ==
  LET d == d0 + (now - t0)
  IN  IF d > 16
      THEN [self |-> TickTimer(m), t |-> now, dt |-> d, decremented |-> m.dt > 0]
      ELSE [self |-> m, t |-> t0, dt |-> d, decremented |-> FALSE]

\* emulator.load_rom(&rom); let mut t = SystemTime::now(); let mut dt = 0
HostLoad ==
  /\ ~loaded
  /\ panic = "none"
  /\ \E rom \in HostRoms : Install(LoadRom(Machine, rom))
  /\ loaded' = TRUE
  /\ clock' = clock
  /\ host_t' = clock
  /\ host_dt' = 0

\* One call of the event loop's closure: draw (of DrawFrame(Machine), to the
\* window) and input on MainEventsCleared, then the timer, then
\* emulator.process()
HostLoop ==
  /\ Running
  /\ \E e \in ElapsedVals, cleared \in BOOLEAN, evs \in [0..MaxKey -> KeyEvents],
        rnd \in RandChoices, checks \in CheckChoices :
       /\ clock + e <= MaxClock
       /\ LET now == clock + e
              m1  == IF cleared THEN HandleInput(Machine, evs, 0) ELSE Machine
              h   == HostTimer(m1, host_t, host_dt, now)
              m2  == Process(h.self, rnd, checks)
          IN  /\ Len(m2.stack) <= MaxStack
              /\ Install(m2)
              /\ clock' = now
              /\ host_t' = h.t
              /\ host_dt' = h.dt
  /\ UNCHANGED loaded

HostNext == HostLoad \/ HostLoop

SpecHost == Init /\ [][HostNext]_vars

---------------------------------------------------------------------------
(* What the properties below speak of *)

\* The instruction word process() fetches next
Instr == ReadWord(mem, pc)

\* process() is about to fetch and run an instruction
AtInstr == Running /\ CanFetch(pc)

\* The state process() leaves, for an instruction that draws no random byte
\* and overflows no u16
Stepped == Process(Machine, 0, FALSE)

UnwrapNone == "called Option::unwrap() on a None value"

FontIntact == \A k \in 1..Len(FONT) : mem[FontStart + k - 1] = FONT[k]

\* The next instruction is Fx33 or Fx55 and writes at least one byte of
\* 0x50..0x9F
FontWrite ==
  /\ AtInstr
  /\ OpT(Instr) = 15
  /\ i < FontStart + Len(FONT)
  /\ \/ OpY(Instr) = 3 /\ OpN(Instr) = 3 /\ i + 2 >= FontStart
     \/ OpY(Instr) = 5 /\ OpN(Instr) = 5 /\ i + OpX(Instr) >= FontStart

---------------------------------------------------------------------------
(* C1 *)

\* C1 as stated: in every reachable state the 80 bytes at 0x50..0x9F equal
\* the font table.
C1_FontNeverMutated == FontIntact

\* C1, amended: the font is in place after construction, and every load,
\* set_key, timer tick and instruction leaves it in place, except an Fx33 or
\* Fx55 whose written range I.. reaches into 0x50..0x9F.
C1_FontMutatedOnlyByStores ==
  FontIntact /\ [][(FontIntact /\ ~FontWrite) => FontIntact']_vars

\* An Fx55 at I = 0x9F has stored V0 = 0x11 over the last font byte
C1_Witness == loaded /\ pc = 520 /\ mem[159] = 17 /\ mem[160] = 34

---------------------------------------------------------------------------
(* C2 *)

\* C2: while the machine runs, PC stays within the memory extent, so that
\* the fetch at PC and PC+1 reads addresses in 0..4095 and does not fault.
C2_PcBounded == Running => CanFetch(pc)

---------------------------------------------------------------------------
(* C3 *)

ReturnOnEmpty == AtInstr /\ Instr = \h00EE /\ stack = << >>

\* C3: after load, no instruction other than 00EE on an empty stack raises a
\* fatal condition when its effect is executed.
C3_OnlyUnderflowIsFatal ==
  (AtInstr /\ ~ReturnOnEmpty) =>
    \A rnd \in RandChoices, checks \in CheckChoices :
      Process(Machine, rnd, checks).panic = "none"

---------------------------------------------------------------------------
(* C4 *)

\* The encodings of the opcode table
InOpcodeTable(w) ==
  LET t == OpT(w)
      y == OpY(w)
      n == OpN(w)
  IN  \/ w = \h00E0
      \/ w = \h00EE
      \/ t \in {1, 2, 3, 4, 6, 7, 10, 11, 12, 13}
      \/ t \in {5, 9} /\ n = 0
      \/ t = 8 /\ n \in {0, 1, 2, 3, 4, 5, 6, 7, 14}
      \/ t = 14 /\ <<y, n>> \in {<<9, 14>>, <<10, 1>>}
      \/ t = 15 /\ <<y, n>> \in {<<0, 7>>, <<0, 10>>, <<1, 5>>, <<1, 14>>,
                                 <<2, 9>>, <<3, 3>>, <<5, 5>>, <<6, 5>>}

\* C4: a word outside the opcode table only advances PC by 2.
C4_UnimplementedOnlyAdvances ==
  (AtInstr /\ ~InOpcodeTable(Instr)) =>
    Stepped = [Machine EXCEPT !.pc = pc + 2]

---------------------------------------------------------------------------
(* C5 *)

\* C5: a 00EE on an empty stack ends in the unwrap panic, with no return
\* address put in PC, and no operation runs once a panic is raised.
C5_UnderflowIsFatal ==
  [][/\ panic = "none"
     /\ (ReturnOnEmpty /\ Step) =>
          panic' = UnwrapNone /\ pc' = pc + 2 /\ stack' = << >>]_vars

\* The machine after a 00EE on an empty stack
C5_Witness == panic = UnwrapNone /\ stack = << >> /\ pc = ProgStart + 2

---------------------------------------------------------------------------
(* C6 *)

Last(s) == s[Len(s)]

Front(s) == SubSeq(s, 1, Len(s) - 1)

\* C6: 2nnn fetched at p pushes p + 2 and jumps to nnn; 00EE with a return
\* address on top pops exactly it into PC; so a return straight after a call
\* gives PC = p + 2 and the stack of before the call.
C6_CallReturnRoundTrip ==
  [][/\ (AtInstr /\ OpT(Instr) = 2 /\ Step) =>
          /\ stack' = Append(stack, pc + 2)
          /\ pc' = OpNNN(Instr)
          /\ Return(Machine').pc = pc + 2
          /\ Return(Machine').stack = stack
     /\ (AtInstr /\ Instr = \h00EE /\ stack # << >> /\ Step) =>
          /\ pc' = Last(stack)
          /\ stack' = Front(stack)
          /\ panic' = "none"]_vars

\* The nested calls of RomCall: the inner subroutine (called from 0x206) has
\* returned to 0x208, with the outer return address 0x202 still on the stack
C6_Witness ==
  /\ pc = 520 /\ stack = << 514 >> /\ panic = "none"
  /\ ReadWord(mem, 518) = \h2204 /\ ReadWord(mem, 516) = \h00EE

---------------------------------------------------------------------------
(* C7 *)

Pressed == {k \in 0..15 : keypad[k]}

Min(S) == CHOOSE k \in S : \A l \in S : k <= l

\* C7: Fx0A with no key pressed leaves the whole machine as it was, PC back
\* at the instruction; with a key pressed it puts the lowest pressed index
\* in Vx and leaves PC after the instruction, and changes nothing else.
C7_KeyWait ==
  (AtInstr /\ OpT(Instr) = 15 /\ OpNN(Instr) = 10) =>
    IF Pressed = {}
    THEN Stepped = Machine
    ELSE Stepped = [Machine EXCEPT !.v[OpX(Instr)] = Min(Pressed),
                                   !.pc = pc + 2]

\* RomWait past its Fx0A with keys 0 and 1 both down: V3 took key 0
C7_Witness ==
  /\ ReadWord(mem, ProgStart) = \hF30A /\ pc = ProgStart + 2
  /\ keypad[0] /\ keypad[1] /\ v[3] = 0

---------------------------------------------------------------------------
(* C8, C9, C10: Dxyn *)

\* The next instruction is a Dxyn whose n sprite bytes lie within memory
AtDraw == AtInstr /\ OpT(Instr) = 13 /\ i + OpN(Instr) <= MemSize

\* The origin of the draw
Ox == v[OpX(Instr)] % 64

Oy == v[OpY(Instr)] % 32

\* The <<row, bit>> positions of the set bits of the sprite at I, bit 0 the
\* most significant
SetBits ==
  {jb \in (0..(OpN(Instr) - 1)) \X (0..7) : Bit(mem[i + jb[1]], 7 - jb[2]) = 1}

\* The framebuffer cell of row j, bit b of the sprite
Cell(j, b) == ((Ox + b) % 64) + ((Oy + j) % 32) * 64

Targets == {Cell(jb[1], jb[2]) : jb \in SetBits}

\* C8: a draw flips exactly the cells its set sprite bits fall on, wrapped
\* round both edges, and apart from VF and the PC advance changes nothing.
C8_DrawFlipsSetBits ==
  AtDraw =>
    LET m  == Stepped
        tg == Targets
    IN  /\ \A c \in 0..(VmemSize - 1) :
             m.vmem[c] = IF c \in tg THEN 1 - vmem[c] ELSE vmem[c]
        /\ \A r \in 0..14 : m.v[r] = v[r]
        /\ m.pc = pc + 2
        /\ m.mem = mem /\ m.i = i /\ m.stack = stack
        /\ m.keypad = keypad /\ m.dt = dt /\ m.panic = "none"

\* Glyph 0 drawn at (63, 31) on a clear screen: its top row lies on the
\* bottom line and wraps from column 63 to column 0, its second row is on
\* the top line
C8_Witness ==
  /\ pc = 522 /\ v[0] % 64 = 63 /\ v[1] % 32 = 31 /\ i = FontStart
  /\ vmem[63 + 31 * 64] = 1 /\ vmem[0 + 31 * 64] = 1 /\ vmem[63] = 1
  /\ vmem[62 + 31 * 64] = 0 /\ vmem[0] = 0

\* C9: after a draw VF is 1 if some set sprite bit fell on a lit cell, and 0
\* if none did.
C9_CollisionFlag ==
  AtDraw =>
    Stepped.v[15] =
      IF \E c \in Targets : vmem[c] = 1 THEN 1 ELSE 0

\* C10: the same draw twice in succession restores the framebuffer; from a
\* clear screen, the first draw lights the sprite's cells and the second
\* clears them again with VF = 1.
C10_DrawTwiceRestores ==
  AtDraw =>
    LET vx == v[OpX(Instr)]
        vy == v[OpY(Instr)]
        n  == OpN(Instr)
        m1 == Draw(Machine, vx, vy, n, FALSE)
        m2 == Draw(m1, vx, vy, n, FALSE)
    IN  /\ m2.vmem = vmem
        /\ ((\A c \in 0..(VmemSize - 1) : vmem[c] = 0) /\ Targets # {}) =>
             /\ \A c \in Targets : m1.vmem[c] = 1 /\ m2.vmem[c] = 0
             /\ m2.v[15] = 1

\* RomDraw after its second draw of the first sprite: the screen is clear
\* again and the collision flag is up
C10_Witness ==
  /\ ReadWord(mem, 520) = \hD015 /\ ReadWord(mem, 522) = \hD015 /\ pc = 524
  /\ \A c \in 0..(VmemSize - 1) : vmem[c] = 0
  /\ v[15] = 1

---------------------------------------------------------------------------
(* C11, C12 *)

\* The word before PC is w: in a straight run of code, w has just been run
After(w) ==
  Running /\ pc >= ProgStart + 2 /\ CanFetch(pc - 2) /\ ReadWord(mem, pc - 2) = w

\* process() is about to run 8xy6 or 8xyE
AtShift == AtInstr /\ OpT(Instr) = 8 /\ OpN(Instr) \in {6, 14}

\* C11: for x, y distinct and neither F, 8xyE leaves Vx = (Vy << 1) mod 256
\* and VF = bit 7 of the old Vy, and 8xy6 leaves Vx = Vy >> 1 and VF = bit 0
\* of the old Vy: the flag is the bit shifted out, whatever Vx held.
C11_ShiftFlagIsShiftedOutBit ==
  (AtShift /\ OpX(Instr) # OpY(Instr) /\ OpX(Instr) # 15 /\ OpY(Instr) # 15) =>
    LET x  == OpX(Instr)
        vy == v[OpY(Instr)]
    IN  IF OpN(Instr) = 14
        THEN Stepped.v[x] = (vy * 2) % 256 /\ Stepped.v[15] = Bit(vy, 7)
        ELSE Stepped.v[x] = vy \div 2 /\ Stepped.v[15] = Bit(vy, 0)

---------------------------------------------------------------------------
(* C13 *)

\* process() is about to run 8xy4, 8xy5 or 8xy7
AtCarry == AtInstr /\ OpT(Instr) = 8 /\ OpN(Instr) \in {4, 5, 7}

\* Register values at the ends and the middle of the 8-bit range
EdgeBytes == {0, 1, 127, 128, 255}

\* C13: for x other than F, 8xy4 leaves Vx = (Vx + Vy) mod 256 and VF = 1
\* iff Vx + Vy > 255, 8xy5 leaves Vx = (Vx - Vy) mod 256 and VF = 1 iff
\* Vx >= Vy, 8xy7 leaves Vx = (Vy - Vx) mod 256 and VF = 1 iff Vy >= Vx,
\* and VF = 0 otherwise; the operands are the old values, also for y = F.
\* Checked on the registers as they are and with each of Vx, Vy replaced by
\* each of EdgeBytes.
C13_CarryBorrow ==
  (AtCarry /\ OpX(Instr) # 15) =>
    \A a, b \in {v[OpX(Instr)], v[OpY(Instr)]} \union EdgeBytes :
      LET x  == OpX(Instr)
          n  == OpN(Instr)
          m0 == [Machine EXCEPT !.v[OpX(Instr)] = a, !.v[OpY(Instr)] = b]
          vx == m0.v[OpX(Instr)]
          vy == m0.v[OpY(Instr)]
          m  == Process(m0, 0, FALSE)
      IN  /\ n = 4 => /\ m.v[x] = (vx + vy) % 256
                      /\ m.v[15] = IF vx + vy > 255 THEN 1 ELSE 0
          /\ n = 5 => /\ m.v[x] = (vx - vy) % 256
                      /\ m.v[15] = IF vx >= vy THEN 1 ELSE 0
          /\ n = 7 => /\ m.v[x] = (vy - vx) % 256
                      /\ m.v[15] = IF vy >= vx THEN 1 ELSE 0
          /\ \A r \in 0..14 : r # x => m.v[r] = m0.v[r]

\* RomAlu after 80F5 on V0 = VF = 129: the difference is 0 and the flag,
\* which was the subtrahend, is up
C13_Witness ==
  After(\h80F5) /\ pc = ProgStart + 16 /\ v[0] = 0 /\ v[15] = 1

---------------------------------------------------------------------------
(* C14 *)

TooLarge == "size too large to load into memory"

\* C14: load of an image of length L <= 3584 leaves memory[0x200 + k] =
\* image[k] for k < L and every other memory byte, the registers, PC, I, the
\* stack, the framebuffer, the keypad and the timer as they were; load of a
\* longer image fails with no memory byte changed.
C14_Load ==
  [][~loaded =>
       \E rom \in Roms :
         /\ UNCHANGED <<i, pc, v, stack, vmem, keypad, dt>>
         /\ IF Len(rom) <= 3584
            THEN /\ panic' = "none"
                 /\ \A k \in 0..(Len(rom) - 1) : mem'[512 + k] = rom[k + 1]
                 /\ \A a \in 0..(MemSize - 1) :
                      (a < 512 \/ a >= 512 + Len(rom)) => mem'[a] = mem[a]
            ELSE /\ panic' = TooLarge
                 /\ mem' = mem]_vars

\* The load of RomTooLarge, 3585 bytes, has failed: memory is as new() left
\* it
C14_Witness == loaded /\ panic = TooLarge /\ mem = New.mem /\ pc = ProgStart

---------------------------------------------------------------------------
(* C15 *)

\* C15: after Fx29, I is the address of the first of the five bytes of the
\* glyph of digit d = Vx & 0xF: memory[I..I+4] are the rows of glyph d of the
\* font table (in a memory whose font is as loaded).
C15_FontCharIsGlyphBase ==
  (AtInstr /\ OpT(Instr) = 15 /\ OpNN(Instr) = 41 /\ FontIntact) =>
    LET d == And8(v[OpX(Instr)], 15)
    IN  \A k \in 0..4 : Stepped.mem[Stepped.i + k] = FONT[5 * d + k + 1]

---------------------------------------------------------------------------
(* C16 *)

\* C16: after Fx1E, I is the old I + Vx, not reduced modulo 0x1000; VF is 1
\* if that sum exceeds 0x0FFF and keeps its value otherwise.
C16_AddToI ==
  (AtInstr /\ OpT(Instr) = 15 /\ OpNN(Instr) = 30) =>
    \A checks \in CheckChoices :
      LET m   == Process(Machine, 0, checks)
          sum == i + v[OpX(Instr)]
      IN  /\ m.panic = "none"
          /\ m.i = sum
          /\ m.v[15] = IF sum > 4095 THEN 1 ELSE v[15]

---------------------------------------------------------------------------
(* C17 *)

\* process() is about to run Fx55 or Fx65 on I..I+x inside memory
AtRegs(nn) ==
  AtInstr /\ OpT(Instr) = 15 /\ OpNN(Instr) = nn /\ i + OpX(Instr) < MemSize

\* C17: Fx55 writes V0..Vx, x + 1 bytes, to memory[I..I+x] and leaves I, the
\* registers and every other memory byte; Fx65 reads memory[I..I+x] into
\* V0..Vx and leaves I, memory and the registers above x; so Fx65 after Fx55
\* with the same x and I brings V0..Vx back, whatever they were changed to in
\* between.
C17_StoreLoadRoundTrip ==
  /\ AtRegs(85) =>
       LET x == OpX(Instr)
           m == Stepped
       IN  /\ m.mem = [a \in 0..(MemSize - 1) |->
                         IF a >= i /\ a <= i + x THEN v[a - i] ELSE mem[a]]
           /\ m.i = i /\ m.v = v /\ m.panic = "none"
           /\ \A c \in {0, 255} :
                LET changed == [m EXCEPT !.v = [r \in 0..15 |->
                                                  IF r <= x THEN c ELSE v[r]]]
                IN  LoadRegs(changed, x).v = v
  /\ AtRegs(101) =>
       LET x == OpX(Instr)
           m == Stepped
       IN  /\ m.v = [r \in 0..15 |-> IF r <= x THEN mem[i + r] ELSE v[r]]
           /\ m.i = i /\ m.mem = mem /\ m.panic = "none"

\* RomRegs after its F165: V0 and V1 are the random bytes again, V2 is the 0
\* it was changed to, and the byte after the two stored is untouched
C17_Witness ==
  /\ After(\hF165) /\ pc = ProgStart + 18 /\ i = 768
  /\ v[0] = 129 /\ v[1] = 62 /\ v[2] = 0
  /\ mem[768] = 129 /\ mem[769] = 62 /\ mem[770] = 0

---------------------------------------------------------------------------
(* C18 *)

\* C18: after Fx33, memory[I], memory[I+1] and memory[I+2] are the hundreds,
\* tens and units digits of Vx, each in 0..9 and with 100 * memory[I] +
\* 10 * memory[I+1] + memory[I+2] = Vx; no other memory byte, no register
\* and not I changes.
C18_Bcd ==
  (AtInstr /\ OpT(Instr) = 15 /\ OpNN(Instr) = 51 /\ i + 2 < MemSize) =>
    LET vx == v[OpX(Instr)]
        m  == Stepped
    IN  /\ \A k \in 0..2 : m.mem[i + k] \in 0..9
        /\ 100 * m.mem[i] + 10 * m.mem[i + 1] + m.mem[i + 2] = vx
        /\ \A b \in 0..255 :
             LET mb == Process([Machine EXCEPT !.v[OpX(Instr)] = b], 0, FALSE)
             IN  /\ \A k \in 0..2 : mb.mem[i + k] \in 0..9
                 /\ 100 * mb.mem[i] + 10 * mb.mem[i + 1] + mb.mem[i + 2] = b
        /\ \A a \in 0..(MemSize - 1) : (a < i \/ a > i + 2) => m.mem[a] = mem[a]
        /\ m.v = v /\ m.i = i /\ m.panic = "none"

\* RomFont after F033 on V0 = 129: the digits 1, 2, 9 at 0x50..0x52
C18_Witness ==
  /\ After(\hF033) /\ i = 80 /\ v[0] = 129
  /\ mem[80] = 1 /\ mem[81] = 2 /\ mem[82] = 9

---------------------------------------------------------------------------
(* C19 *)

\* C19: only a step that runs 00E0 or Dxyn changes a framebuffer cell: no
\* other instruction, and no load, set_key, render or timer tick does; and
\* 00E0 sets every cell to 0 and changes nothing else but the PC, advanced
\* by 2.
C19_FramebufferFrame ==
  [][/\ vmem' # vmem =>
          AtInstr /\ Step /\ (Instr = \h00E0 \/ OpT(Instr) = 13)
     /\ (AtInstr /\ Instr = \h00E0 /\ Step) =>
          /\ \A c \in 0..(VmemSize - 1) : vmem'[c] = 0
          /\ pc' = pc + 2
          /\ UNCHANGED <<i, mem, v, stack, keypad, dt, panic>>]_vars

\* RomDraw after its 00E0, which found a sprite on the screen (the new sprite
\* drawn twice over it having left it there): no cell is lit
C19_Witness ==
  /\ After(\h00E0) /\ pc = ProgStart + 24
  /\ \A c \in 0..(VmemSize - 1) : vmem[c] = 0

---------------------------------------------------------------------------
(* C20 *)

\* C20: the event loop decrements the delay timer by one, only while it is
\* above 0, at most once per 16 ms of elapsed time, however many callbacks
\* (process() calls) fall in that time: of two callbacks in a row, the
\* second not more than 16 ms after the first, at most one decrements the
\* timer.
C20_TimerCadence ==
  Running =>
    \A e1, e2 \in ElapsedVals :
      LET a == HostTimer(Machine, host_t, host_dt, clock + e1)
          b == Process(a.self, 0, FALSE)
          c == HostTimer(b, a.t, a.dt, clock + e1 + e2)
      IN  /\ a.self.dt \in {dt, dt - 1} /\ a.self.dt >= 0
          /\ (e2 <= 16 /\ b.panic = "none") =>
               ~(a.decremented /\ c.decremented)

---------------------------------------------------------------------------
(* C21 *)

\* process() is about to run 3xnn, 4xnn, 5xy0 or 9xy0
AtSkip ==
  /\ AtInstr
  /\ \/ OpT(Instr) \in {3, 4}
     \/ OpT(Instr) \in {5, 9} /\ OpN(Instr) = 0

\* C21: 3xnn, 4xnn, 5xy0 or 9xy0 fetched at p leaves PC = p + 4 if its
\* condition holds (Vx = nn, Vx # nn, Vx = Vy, Vx # Vy) and PC = p + 2 if
\* not; no register, memory byte, stack entry or framebuffer cell changes.
\* Checked on the registers as they are and with each of Vx, Vy replaced by
\* nn and by each of EdgeBytes.
C21_ConditionalSkips ==
  AtSkip =>
    \A a, b \in {v[OpX(Instr)], v[OpY(Instr)], OpNN(Instr)} \union EdgeBytes :
      LET t    == OpT(Instr)
          m0   == [Machine EXCEPT !.v[OpX(Instr)] = a, !.v[OpY(Instr)] = b]
          vx   == m0.v[OpX(Instr)]
          vy   == m0.v[OpY(Instr)]
          cond == CASE t = 3 -> vx = OpNN(Instr)
                    [] t = 4 -> vx # OpNN(Instr)
                    [] t = 5 -> vx = vy
                    [] t = 9 -> vx # vy
          m    == Process(m0, 0, FALSE)
      IN  m = [m0 EXCEPT !.pc = IF cond THEN pc + 4 ELSE pc + 2]

\* RomSkip with V0 = 129: the 3081 at 0x204 has skipped the word at 0x206
C21_Witness ==
  /\ Running /\ pc = ProgStart + 8 /\ v[0] = 129
  /\ ReadWord(mem, ProgStart + 4) = \h3081 /\ ReadWord(mem, ProgStart + 6) = \h4081

---------------------------------------------------------------------------
(* C22 *)

\* process() is about to run 8Fy4, 8Fy5, 8Fy7, 8Fy6 or 8FyE
AtFlagDest ==
  AtInstr /\ OpT(Instr) = 8 /\ OpX(Instr) = 15 /\ OpN(Instr) \in {4, 5, 7, 6, 14}

\* C22: after 8xy4, 8xy5, 8xy7, 8xy6 or 8xyE with x = F, VF holds the flag,
\* 0 or 1, computed from the old register values: the carry, the no-borrow,
\* or the bit the shift takes for its flag (of the old VF, as run_instr
\* computes it), and not the sum, difference or shifted value.
C22_FlagWriteIsLast ==
  AtFlagDest =>
    \A a, b \in {v[15], v[OpY(Instr)]} \union EdgeBytes :
      LET n  == OpN(Instr)
          m0 == [Machine EXCEPT !.v[15] = a, !.v[OpY(Instr)] = b]
          vx == m0.v[15]
          vy == m0.v[OpY(Instr)]
          m  == Process(m0, 0, FALSE)
      IN  /\ m.v[15] \in {0, 1}
          /\ m.v[15] = CASE n = 4  -> IF vx + vy > 255 THEN 1 ELSE 0
                         [] n = 5  -> IF vx >= vy THEN 1 ELSE 0
                         [] n = 7  -> IF vy >= vx THEN 1 ELSE 0
                         [] n = 6  -> Bit(vx, 0)
                         [] n = 14 -> Bit(vx, 7)

=============================================================================
